---------------------------- MODULE Spec2Model ----------------------------
(***************************************************************************)
(* A model of the sleep-score repository:                                  *)
(*   sleep_quality_analysis.py     the per-night charts, the 1D-CNN and    *)
(*                                 the channel importance                  *)
(*   sleepqualityvisualization.py  class SleepQualityVisualizer            *)
(*                                                                         *)
(* Timestamps are integers: microseconds since an epoch, the resolution of *)
(* datetime.datetime.  A channel of a night is represented by its number   *)
(* of samples: the sample values only become the y data of a chart.        *)
(***************************************************************************)
EXTENDS Integers, Sequences, FiniteSets, TLC

VARIABLES
    sleep_data,    \* the night handed to the chart functions
    chart,         \* what the last chart call produced
    stages,        \* sleep_data['sleep_stages'] handed to the stage charts
    pie,           \* what the last stage chart call produced
    figs,          \* pyplot's ordered registry of open figures (last = current)
    drawn,         \* every figure object created so far: figure |-> what is drawn on it
    calls,         \* the visualizer calls in progress, one per caller
    cnn,           \* the built Keras model
    outcome        \* what the last call on the model produced

vars == <<sleep_data, chart, stages, pie, figs, drawn, calls, cnn, outcome>>

-----------------------------------------------------------------------------
(* Bounds of the model *)

MaxStart == 1
MaxSpan == 5
MaxSecs == 2
MaxSamples == 4
MaxDur == 7
NumCallers == 2
MaxLen == 4
MaxW == 1
MaxScale == 2

(* datetime.timedelta.total_seconds(): microseconds per second *)
UsPerSec == 1000000

(* Conv1D(32, kernel_size=5, ...), MaxPooling1D(pool_size=2) *)
Filters == 32
KernelSize == 5
PoolSize == 2

-----------------------------------------------------------------------------
(* Helpers *)

Abs(x) == IF x < 0 THEN -x ELSE x

SeqMin(s) == CHOOSE x \in {s[i] : i \in 1..Len(s)} : \A j \in 1..Len(s) : x <= s[j]
SeqMax(s) == CHOOSE x \in {s[i] : i \in 1..Len(s)} : \A j \in 1..Len(s) : x >= s[j]

(* timedelta / int: the quotient rounded to the nearest microsecond, ties   *)
(* to even (b > 0).  \div and % floor, as Python's divmod does.             *)
divide_and_round(a, b) ==
    LET q == a \div b
        r == a % b
    IN  IF 2 * r > b \/ (2 * r = b /\ q % 2 = 1) THEN q + 1 ELSE q

(* int(x / y) for y > 0: Python's int() truncates toward zero *)
trunc_div(a, b) == IF a >= 0 THEN a \div b ELSE -((-a) \div b)

NoChart == [fn |-> "none", status |-> "none", error |-> "", xunit |-> "",
            xdata |-> <<>>, xlim |-> <<>>, n |-> 0]

ErrorChart(f, e, n) == [fn |-> f, status |-> "error", error |-> e, xunit |-> "",
                        xdata |-> <<>>, xlim |-> <<>>, n |-> n]

OkChart(f, unit, xs, lim, n) == [fn |-> f, status |-> "ok", error |-> "", xunit |-> unit,
                                 xdata |-> xs, xlim |-> lim, n |-> n]

-----------------------------------------------------------------------------
(* sleep_quality_analysis.py: the four time charts *)

(* Faulty variants of the alignment step: the span divided by n, and the    *)
(* index divided with floor division before it scales the span.            *)
aligned_times_over_len(start, end, n) ==
    [i \in 1..n |-> start + divide_and_round((end - start) * (i - 1), n)]

aligned_times_floor_index(start, end, n) ==
    [i \in 1..n |-> start + (end - start) * ((i - 1) \div (n - 1))]

(* times = [start + (end - start) * i/(n-1) for i in range(n)], defined     *)
(* for n = 0 (the empty list) and n >= 2; n = 1 divides by zero.            *)
aligned_times(start, end, n) ==
    [i \in 1..n |-> start + divide_and_round((end - start) * (i - 1), n - 1)]

(* The body shared by generate_hr_chart, generate_hrv_chart,               *)
(* generate_spo2_chart and generate_temp_chart: parse, align, plot,        *)
(* set_xlim(start, end), encode.                                           *)
time_chart(f, ch) ==
    LET start == sleep_data.start_time
        end == sleep_data.end_time
        n == sleep_data[ch]
    IN  IF n = 1
        THEN ErrorChart(f, "ZeroDivisionError", n)
        ELSE OkChart(f, "time", aligned_times(start, end, n), <<start, end>>, n)

generate_hr_chart ==
    /\ chart' = time_chart("generate_hr_chart", "heart_rate")
    /\ UNCHANGED <<sleep_data, stages, pie, figs, drawn, calls, cnn, outcome>>

generate_hrv_chart ==
    /\ chart' = time_chart("generate_hrv_chart", "hrv")
    /\ UNCHANGED <<sleep_data, stages, pie, figs, drawn, calls, cnn, outcome>>

generate_spo2_chart ==
    /\ chart' = time_chart("generate_spo2_chart", "spo2")
    /\ UNCHANGED <<sleep_data, stages, pie, figs, drawn, calls, cnn, outcome>>

generate_temp_chart ==
    /\ chart' = time_chart("generate_temp_chart", "wrist_temp")
    /\ UNCHANGED <<sleep_data, stages, pie, figs, drawn, calls, cnn, outcome>>

-----------------------------------------------------------------------------
(* sleepqualityvisualization.py: the four time charts of the visualizer *)

(* times = [start + timedelta(hours=duration * i / len(hr)) ...]: the span  *)
(* is divided by the number of samples; timedelta rounds to a microsecond.  *)
heart_rate_times(start, end, n) ==
    [i \in 1..n |-> start + divide_and_round((end - start) * (i - 1), n)]

generate_heart_rate_chart ==
    LET start == sleep_data.start_time
        end == sleep_data.end_time
        n == sleep_data.heart_rate
    IN  /\ chart' = OkChart("generate_heart_rate_chart", "time",
                            heart_rate_times(start, end, n), <<>>, n)
        /\ UNCHANGED <<sleep_data, stages, pie, figs, drawn, calls, cnn, outcome>>

(* freq_secs = int(total_secs / len(hrv)) if len(hrv) > 0 else 1 *)
freq_secs(start, end, n) ==
    IF n > 0 THEN trunc_div(end - start, UsPerSec * n) ELSE 1

(* pd.date_range(start=start, periods=len(hrv), freq=f"{freq_secs}S") *)
date_range(start, periods, freq) ==
    [i \in 1..periods |-> start + (i - 1) * freq * UsPerSec]

(* A frequency of zero seconds is decided inside pandas: both a rejection   *)
(* and a constant range are admitted.                                       *)
generate_hrv_trend ==
    LET start == sleep_data.start_time
        end == sleep_data.end_time
        n == sleep_data.hrv
        freq == freq_secs(start, end, n)
    IN  /\ \/ chart' = OkChart("generate_hrv_trend", "time",
                               date_range(start, n, freq), <<>>, n)
           \/ /\ freq = 0
              /\ chart' = ErrorChart("generate_hrv_trend", "ValueError", n)
        /\ UNCHANGED <<sleep_data, stages, pie, figs, drawn, calls, cnn, outcome>>

(* plt.plot(spo2, ...): the x data are the sample indices 0..n-1 *)
index_axis(n) == [i \in 1..n |-> i - 1]

generate_spo2_trend ==
    /\ chart' = OkChart("generate_spo2_trend", "index",
                        index_axis(sleep_data.spo2), <<>>, sleep_data.spo2)
    /\ UNCHANGED <<sleep_data, stages, pie, figs, drawn, calls, cnn, outcome>>

generate_temperature_trend ==
    /\ chart' = OkChart("generate_temperature_trend", "index",
                        index_axis(sleep_data.wrist_temp), <<>>, sleep_data.wrist_temp)
    /\ UNCHANGED <<sleep_data, stages, pie, figs, drawn, calls, cnn, outcome>>

(* The x-range a chart shows: the explicit set_xlim, else the extent of the *)
(* plotted x data (autoscaling only pads that extent with margins).        *)
XRange(c) ==
    IF c.xlim # <<>> THEN c.xlim
    ELSE IF c.xdata = <<>> THEN <<>>
    ELSE <<SeqMin(c.xdata), SeqMax(c.xdata)>>

-----------------------------------------------------------------------------
(* The nights the chart functions are called with *)

SpanChoices == (-1..MaxSpan) \cup {k * UsPerSec : k \in 1..MaxSecs}

Nights ==
    {[start_time |-> s, end_time |-> s + d, heart_rate |-> a, hrv |-> b,
      spo2 |-> c, wrist_temp |-> e] :
        s \in 0..MaxStart, d \in SpanChoices,
        a \in 0..MaxSamples, b \in 0..MaxSamples,
        c \in 0..MaxSamples, e \in 0..MaxSamples}

InitCharts ==
    /\ sleep_data \in Nights
    /\ chart = NoChart
    /\ stages = <<>>
    /\ pie = <<>>
    /\ figs = <<>>
    /\ drawn = <<>>
    /\ calls = <<>>
    /\ cnn = <<>>
    /\ outcome = <<>>

NextCharts ==
    \/ generate_hr_chart
    \/ generate_hrv_chart
    \/ generate_spo2_chart
    \/ generate_temp_chart
    \/ generate_heart_rate_chart
    \/ generate_hrv_trend
    \/ generate_spo2_trend
    \/ generate_temperature_trend

SpecCharts == InitCharts /\ [][NextCharts]_vars

-----------------------------------------------------------------------------
(* Claims about the time charts *)

AnalysisCharts == {"generate_hr_chart", "generate_hrv_chart",
                   "generate_spo2_chart", "generate_temp_chart"}

Span == sleep_data.end_time - sleep_data.start_time

StrictlyIncreasing(s) == \A i \in 1..(Len(s) - 1) : s[i] < s[i + 1]
NonDecreasing(s) == \A i \in 1..(Len(s) - 1) : s[i] <= s[i + 1]

(* C1: for end > start and n >= 2 samples, the alignment step of the four   *)
(* time charts yields exactly n timestamps, the first equal to start and    *)
(* the last equal to end.                                                   *)
C1_AlignmentEndpoints ==
    (chart.fn \in AnalysisCharts /\ Span > 0 /\ chart.n >= 2) =>
        /\ chart.status = "ok"
        /\ Len(chart.xdata) = chart.n
        /\ chart.xdata[1] = sleep_data.start_time
        /\ chart.xdata[chart.n] = sleep_data.end_time

C1_Witness ==
    /\ chart.fn = "generate_hr_chart"
    /\ chart.status = "ok"
    /\ chart.n = 4
    /\ Span = 5
    /\ chart.xdata[1] = sleep_data.start_time
    /\ chart.xdata[4] = sleep_data.end_time

(* C2 as stated: for end >= start and n >= 2 the timestamp sequence is      *)
(* strictly increasing.                                                     *)
C2_StrictlyIncreasing ==
    (chart.fn \in AnalysisCharts /\ Span >= 0 /\ chart.n >= 2) =>
        /\ chart.status = "ok"
        /\ StrictlyIncreasing(chart.xdata)

(* C2 as amended: for end >= start and n >= 2 the timestamp sequence is     *)
(* non-decreasing, and it is strictly increasing exactly when the span      *)
(* end - start is at least n - 1 microseconds.                              *)
C2_IncreasingIffSpanCoversSteps ==
    (chart.fn \in AnalysisCharts /\ Span >= 0 /\ chart.n >= 2) =>
        /\ chart.status = "ok"
        /\ NonDecreasing(chart.xdata)
        /\ StrictlyIncreasing(chart.xdata) <=> (Span >= chart.n - 1)

C2_Witness ==
    /\ chart.fn = "generate_hrv_chart"
    /\ chart.status = "ok"
    /\ chart.n = 3
    /\ Span = 1
    /\ chart.xdata[1] = chart.xdata[2]
    /\ chart.xdata[2] < chart.xdata[3]

(* C5: a time chart request with a channel of fewer than two samples, or    *)
(* with end not after start, ends in an InvalidInput or DegenerateInput     *)
(* error and never completes with a chart.                                  *)
C5_PreconditionRejected ==
    (chart.fn \in AnalysisCharts /\ (chart.n < 2 \/ Span <= 0)) =>
        /\ chart.status = "error"
        /\ chart.error \in {"InvalidInput", "DegenerateInput"}

(* C9: every time chart of a valid night (end > start, at least two         *)
(* samples), from either module, has an x-axis spanning exactly             *)
(* [start_time, end_time].                                                  *)
C9_AxisSpansSession ==
    (chart.status = "ok" /\ Span > 0 /\ chart.n >= 2) =>
        /\ chart.xunit = "time"
        /\ XRange(chart) = <<sleep_data.start_time, sleep_data.end_time>>

-----------------------------------------------------------------------------
(* The stage charts: generate_sleep_stage_pie_chart of the analysis module  *)
(* and SleepQualityVisualizer.generate_sleep_structure_chart.               *)
(*                                                                          *)
(* A percentage is kept in tenths of a percent, as the integer the ".1f"    *)
(* format prints.  dur/total*100 is IEEE double arithmetic; ".1f" rounds    *)
(* the double correctly, ties to even.  For a total below 80 minutes every  *)
(* tie x.x5 has a dyadic dur/total, which the doubles hold exactly, and     *)
(* every other quotient lies further from a tie than the rounding error,    *)
(* so the printed tenths are the exact quotient rounded half to even.       *)

StageNames == <<"deep", "rem", "light", "awake">>

Range(f) == {f[x] : x \in DOMAIN f}

RECURSIVE SumOver(_, _)
SumOver(f, S) ==
    IF S = {} THEN 0
    ELSE LET x == CHOOSE y \in S : TRUE IN f[x] + SumOver(f, S \ {x})

(* total = sum(stages.values()) *)
stage_total(st) == SumOver(st, DOMAIN st)

(* stages.get(stage, 0) *)
stage_get(st, k) == IF k \in DOMAIN st THEN st[k] ELSE 0

(* Faulty variant of the percentage: truncated instead of rounded *)
percent_tenths_truncated(dur, total) == (1000 * dur) \div total

(* f"{dur/total*100:.1f}" *)
percent_tenths(dur, total) == divide_and_round(1000 * dur, total)

stage_label(k, dur, total) == [stage |-> k, minutes |-> dur, pct |-> percent_tenths(dur, total)]

NoPie == [fn |-> "none", status |-> "none", error |-> "", labels |-> <<>>,
          sizes |-> <<>>, open_figure |-> FALSE]

ErrorPie(f, e, open) == [fn |-> f, status |-> "error", error |-> e, labels |-> <<>>,
                         sizes |-> <<>>, open_figure |-> open]

(* The labels are built before the figure is created: a failure leaves no   *)
(* figure behind.                                                           *)
generate_sleep_stage_pie_chart ==
    LET total == stage_total(stages)
        f == "generate_sleep_stage_pie_chart"
    IN  /\ pie' = IF total = 0
                  THEN ErrorPie(f, "ZeroDivisionError", FALSE)
                  ELSE [fn |-> f, status |-> "ok", error |-> "",
                        labels |-> [i \in 1..4 |->
                            stage_label(StageNames[i], stage_get(stages, StageNames[i]), total)],
                        sizes |-> [i \in 1..4 |-> stage_get(stages, StageNames[i])],
                        open_figure |-> FALSE]
        /\ UNCHANGED <<sleep_data, chart, stages, figs, drawn, calls, cnn, outcome>>

(* plt.figure() comes before the labels: a failure in a label leaves the    *)
(* figure open.  Each label reads stages[key] (KeyError) before it divides. *)
generate_sleep_structure_chart ==
    LET total == stage_total(stages)
        f == "generate_sleep_structure_chart"
    IN  /\ pie' = IF "deep" \notin DOMAIN stages
                  THEN ErrorPie(f, "KeyError", TRUE)
                  ELSE IF total = 0
                  THEN ErrorPie(f, "ZeroDivisionError", TRUE)
                  ELSE IF \E i \in 1..4 : StageNames[i] \notin DOMAIN stages
                  THEN ErrorPie(f, "KeyError", TRUE)
                  ELSE [fn |-> f, status |-> "ok", error |-> "",
                        labels |-> [i \in 1..4 |->
                            stage_label(StageNames[i], stages[StageNames[i]], total)],
                        sizes |-> [i \in 1..4 |-> stages[StageNames[i]]],
                        open_figure |-> FALSE]
        /\ UNCHANGED <<sleep_data, chart, stages, figs, drawn, calls, cnn, outcome>>

StageMaps ==
    UNION {[K -> 0..MaxDur] : K \in SUBSET Range(StageNames)}

InitStages ==
    /\ stages \in StageMaps
    /\ pie = NoPie
    /\ sleep_data = <<>>
    /\ chart = <<>>
    /\ figs = <<>>
    /\ drawn = <<>>
    /\ calls = <<>>
    /\ cnn = <<>>
    /\ outcome = <<>>

NextStages ==
    \/ generate_sleep_stage_pie_chart
    \/ generate_sleep_structure_chart

SpecStages == InitStages /\ [][NextStages]_vars

(* Claims about the stage charts *)

AllStages == DOMAIN stages = Range(StageNames)

PctSum == pie.labels[1].pct + pie.labels[2].pct + pie.labels[3].pct + pie.labels[4].pct

(* C4: when the four durations sum to zero the stage chart is rejected with *)
(* a DegenerateInput error: no raw divide-by-zero, no image.                *)
C4_ZeroTotalRejected ==
    (pie.status # "none" /\ AllStages /\ stage_total(stages) = 0) =>
        /\ pie.status = "error"
        /\ pie.error = "DegenerateInput"

LabelsComplete ==
    /\ pie.status = "ok"
    /\ Len(pie.labels) = 4
    /\ \A i \in 1..4 :
          /\ pie.labels[i].stage = StageNames[i]
          /\ pie.labels[i].minutes = stages[StageNames[i]]
          /\ 2 * Abs(pie.labels[i].pct * stage_total(stages) - 1000 * stages[StageNames[i]])
                <= stage_total(stages)

(* C6 as stated: with all four keys and a positive total, the chart labels  *)
(* each of the four stages with duration / total * 100 rounded to one       *)
(* decimal, and the four percentages sum to 100.0 within 0.1.               *)
C6_PercentagesSumWithinTenth ==
    (pie.status # "none" /\ AllStages /\ stage_total(stages) > 0) =>
        /\ LabelsComplete
        /\ PctSum \in 999..1001

(* C6 as amended: the same, with the four percentages summing to 100.0      *)
(* within 0.2.                                                              *)
C6_PercentagesSumWithinTwoTenths ==
    (pie.status # "none" /\ AllStages /\ stage_total(stages) > 0) =>
        /\ LabelsComplete
        /\ PctSum \in 998..1002

C6_Witness ==
    /\ pie.fn = "generate_sleep_stage_pie_chart"
    /\ pie.status = "ok"
    /\ AllStages
    /\ stages["awake"] = 0
    /\ pie.labels[4].pct = 0
    /\ pie.labels[1].pct = 333
    /\ PctSum = 999

-----------------------------------------------------------------------------
(* Chart calls in progress at the same time.                                *)
(*                                                                          *)
(* pyplot keeps one process-wide registry of open figures, the last one     *)
(* being the current figure.  The visualizer draws, saves and closes        *)
(* through pyplot, on whatever figure is current at that moment; the        *)
(* analysis module keeps the fig and ax that plt.subplots() returned.  A    *)
(* figure is an object id; drawn[id] is the sequence of callers whose data  *)
(* are drawn on it.  Caller c renders the night of session c.               *)

Callers == 1..NumCallers

NoCall == [kind |-> "none", pc |-> "idle", fig |-> 0, image |-> <<>>]

RemoveAt(s, i) == [j \in 1..(Len(s) - 1) |-> IF j < i THEN s[j] ELSE s[j + 1]]

Remove(s, x) == IF \E i \in 1..Len(s) : s[i] = x
                THEN RemoveAt(s, CHOOSE i \in 1..Len(s) : s[i] = x)
                ELSE s

NewFigure == Len(drawn) + 1

(* plt.gcf(): the current figure; with none open, pyplot opens one *)
gcf == IF figs = <<>> THEN NewFigure ELSE figs[Len(figs)]

RegistryAfterGcf == IF figs = <<>> THEN <<NewFigure>> ELSE figs

CanvasAfterGcf == IF figs = <<>> THEN Append(drawn, <<>>) ELSE drawn

(* plt.figure(figsize=...) at the head of a visualizer chart *)
plt_figure(c) ==
    /\ calls[c].pc = "idle"
    /\ drawn' = Append(drawn, <<>>)
    /\ figs' = Append(figs, NewFigure)
    /\ calls' = [calls EXCEPT ![c] = [kind |-> "visualizer", pc |-> "figured",
                                      fig |-> 0, image |-> <<>>]]
    /\ UNCHANGED <<sleep_data, chart, stages, pie, cnn, outcome>>

(* plt.plot(times, hr, ...), plt.title, plt.ylabel, plt.grid,               *)
(* plt.gcf().autofmt_xdate(), plt.tight_layout(): all on the current figure *)
plt_plot(c) ==
    /\ calls[c].kind = "visualizer"
    /\ calls[c].pc = "figured"
    /\ drawn' = [CanvasAfterGcf EXCEPT ![gcf] = Append(@, c)]
    /\ figs' = RegistryAfterGcf
    /\ calls' = [calls EXCEPT ![c].pc = "plotted"]
    /\ UNCHANGED <<sleep_data, chart, stages, pie, cnn, outcome>>

(* _figure_to_base64: plt.savefig(buf, ...) writes the current figure *)
plt_savefig(c) ==
    /\ calls[c].kind = "visualizer"
    /\ calls[c].pc = "plotted"
    /\ drawn' = CanvasAfterGcf
    /\ figs' = RegistryAfterGcf
    /\ calls' = [calls EXCEPT ![c].pc = "saved", ![c].image = CanvasAfterGcf[gcf]]
    /\ UNCHANGED <<sleep_data, chart, stages, pie, cnn, outcome>>

(* _figure_to_base64: plt.close() closes the current figure, if any, and    *)
(* the call returns the encoded buffer                                      *)
plt_close(c) ==
    /\ calls[c].kind = "visualizer"
    /\ calls[c].pc = "saved"
    /\ figs' = IF figs = <<>> THEN figs ELSE SubSeq(figs, 1, Len(figs) - 1)
    /\ calls' = [calls EXCEPT ![c].pc = "done"]
    /\ UNCHANGED <<sleep_data, chart, stages, pie, drawn, cnn, outcome>>

(* fig, ax = plt.subplots(figsize=...) at the head of an analysis chart *)
plt_subplots(c) ==
    /\ calls[c].pc = "idle"
    /\ drawn' = Append(drawn, <<>>)
    /\ figs' = Append(figs, NewFigure)
    /\ calls' = [calls EXCEPT ![c] = [kind |-> "analysis", pc |-> "figured",
                                      fig |-> NewFigure, image |-> <<>>]]
    /\ UNCHANGED <<sleep_data, chart, stages, pie, cnn, outcome>>

(* ax.plot(times, hr, ...), ax.set_title, ..., fig.autofmt_xdate() *)
ax_plot(c) ==
    /\ calls[c].kind = "analysis"
    /\ calls[c].pc = "figured"
    /\ drawn' = [drawn EXCEPT ![calls[c].fig] = Append(@, c)]
    /\ calls' = [calls EXCEPT ![c].pc = "plotted"]
    /\ UNCHANGED <<sleep_data, chart, stages, pie, figs, cnn, outcome>>

(* _fig_to_base64: fig.savefig(buf, ...) *)
fig_savefig(c) ==
    /\ calls[c].kind = "analysis"
    /\ calls[c].pc = "plotted"
    /\ calls' = [calls EXCEPT ![c].pc = "saved", ![c].image = drawn[calls[c].fig]]
    /\ UNCHANGED <<sleep_data, chart, stages, pie, figs, drawn, cnn, outcome>>

(* _fig_to_base64: plt.close(fig), and the call returns the encoded buffer *)
plt_close_fig(c) ==
    /\ calls[c].kind = "analysis"
    /\ calls[c].pc = "saved"
    /\ figs' = Remove(figs, calls[c].fig)
    /\ calls' = [calls EXCEPT ![c].pc = "done"]
    /\ UNCHANGED <<sleep_data, chart, stages, pie, drawn, cnn, outcome>>

InitRender ==
    /\ figs = <<>>
    /\ drawn = <<>>
    /\ calls = [c \in Callers |-> NoCall]
    /\ sleep_data = <<>>
    /\ chart = <<>>
    /\ stages = <<>>
    /\ pie = <<>>
    /\ cnn = <<>>
    /\ outcome = <<>>

NextRender ==
    \E c \in Callers :
        \/ plt_figure(c)
        \/ plt_plot(c)
        \/ plt_savefig(c)
        \/ plt_close(c)
        \/ plt_subplots(c)
        \/ ax_plot(c)
        \/ fig_savefig(c)
        \/ plt_close_fig(c)

SpecRender == InitRender /\ [][NextRender]_vars

(* C3: however the steps of two chart calls for different sessions are      *)
(* interleaved, each call returns the image of its own data only, the image *)
(* it returns when run alone.                                               *)
C3_RenderIsolated ==
    \A c \in Callers :
        (calls[c].kind = "visualizer" /\ calls[c].pc = "done") => calls[c].image = <<c>>

-----------------------------------------------------------------------------
(* The 1D-CNN and the channel importance.                                   *)
(*                                                                          *)
(* The model is the record of what build_sleep_cnn fixes (input length,     *)
(* channel count) and of its first Conv1D kernel, a tensor of shape         *)
(* (KernelSize, channels, Filters).  The kernels enumerated are those that  *)
(* give input channel c the magnitude seed[c][1] on the even filters and    *)
(* seed[c][2] on the odd ones, with a sign alternating along the kernel     *)
(* and the channel axes.  A weight ratio is kept exact, as numerator and    *)
(* denominator; nan marks the result of 0/0.                                *)

names == <<"heart_rate", "hrv", "spo2", "wrist_temp">>

NoModel == [built |-> FALSE, input_length |-> 0, channels |-> 0, seed |-> <<>>,
            scale |-> <<>>]

NoOutcome == [fn |-> "none", status |-> "none", error |-> "", importance |-> <<>>,
              outputs |-> 0, L |-> 0, ch |-> 0]

ErrorOutcome(f, e, L, ch) == [fn |-> f, status |-> "error", error |-> e,
                              importance |-> <<>>, outputs |-> 0, L |-> L, ch |-> ch]

RECURSIVE SumTo(_, _)
SumTo(f, n) == IF n = 0 THEN 0 ELSE f[n] + SumTo(f, n - 1)

(* cnn_model.layers[1].get_weights()[0]: the weights the model was built    *)
(* with, those of the even filters multiplied by scale[1] and those of the  *)
(* odd filters by scale[2].                                                 *)
first_conv_kernel(m) ==
    [k \in 1..KernelSize |-> [c \in 1..m.channels |-> [f \in 1..Filters |->
        (IF (k + c) % 2 = 0 THEN 1 ELSE -1)
            * (IF f % 2 = 0 THEN m.seed[c][1] * m.scale[1] ELSE m.seed[c][2] * m.scale[2])]]]

(* np.sum(np.abs(w), axis=(0,2)): one sum per input channel *)
RECURSIVE abs_sum(_, _)
abs_sum(w, channels) ==
    IF channels = 0 THEN <<>>
    ELSE Append(abs_sum(w, channels - 1),
                SumTo([k \in 1..KernelSize |->
                          SumTo([f \in 1..Filters |-> Abs(w[k][channels][f])], Filters)],
                      KernelSize))

(* Faulty variant of ratio: the sum is returned without the division *)
ratio_unnormalized(x, total) ==
    IF total = 0 THEN [nan |-> TRUE, num |-> 0, den |-> 0]
    ELSE [nan |-> FALSE, num |-> x, den |-> 1]

(* x / total as numpy divides: 0 / 0 is nan *)
ratio(x, total) ==
    IF total = 0 THEN [nan |-> TRUE, num |-> 0, den |-> 0]
    ELSE [nan |-> FALSE, num |-> x, den |-> total]

RECURSIVE divide_each(_, _, _)
divide_each(a, total, n) ==
    IF n = 0 THEN <<>> ELSE Append(divide_each(a, total, n - 1), ratio(a[n], total))

(* norms = abs_sum / np.sum(abs_sum) *)
normalize(a) == divide_each(a, SumTo(a, Len(a)), Len(a))

(* {names[i]: float(norms[i]) for i in range(len(names))}: norms[i] raises  *)
(* IndexError once i reaches the channel count.                             *)
compute_channel_importance ==
    /\ cnn.built
    /\ \E a \in {abs_sum(first_conv_kernel(cnn), cnn.channels)} :
          \E norms \in {normalize(a)} :
              outcome' = IF cnn.channels < Len(names)
                         THEN ErrorOutcome("compute_channel_importance", "IndexError", 0, 0)
                         ELSE [fn |-> "compute_channel_importance", status |-> "ok",
                               error |-> "",
                               importance |-> [nm \in Range(names) |->
                                   norms[CHOOSE i \in 1..Len(names) : names[i] = nm]],
                               outputs |-> 0, L |-> 0, ch |-> 0]
    /\ UNCHANGED <<sleep_data, chart, stages, pie, figs, drawn, calls, cnn>>

(* MaxPooling1D(pool_size=2): strides = pool_size, padding 'valid' *)
pooled_length(L) == (L - PoolSize) \div PoolSize + 1

ChannelCounts == (Len(names) - 1)..(Len(names) + 1)

(* The kernels a model is built with: one channel h carries the weights     *)
(* <<a, b>>, every other channel the weights <<o, o>>.                      *)
Seeds(channels) ==
    {[c \in 1..channels |-> IF c = h THEN <<a, b>> ELSE <<o, o>>] :
        h \in 1..channels, a \in 0..MaxW, b \in 0..MaxW, o \in 0..MaxW}

(* build_sleep_cnn(input_length, channels): Input(shape=(input_length,      *)
(* channels)) pins both dimensions.  A time axis that pooling empties is    *)
(* either refused when the layers are connected or kept as an empty axis,   *)
(* depending on the Keras backend: both are admitted.  The model is built   *)
(* once; every later call is made on that one model.                        *)
build_sleep_cnn ==
    /\ ~cnn.built
    /\ \E input_length \in 1..MaxLen, channels \in ChannelCounts :
          \E seed \in Seeds(channels) :
              \/ /\ cnn' = [built |-> TRUE, input_length |-> input_length,
                               channels |-> channels, seed |-> seed,
                               scale |-> <<1, 1>>]
                 /\ outcome' = NoOutcome
              \/ /\ pooled_length(input_length) < 1
                 /\ cnn' = NoModel
                 /\ outcome' = ErrorOutcome("build_sleep_cnn", "ValueError",
                                            input_length, channels)
    /\ UNCHANGED <<sleep_data, chart, stages, pie, figs, drawn, calls>>

(* The built model applied to one input of shape (L, ch): the functional    *)
(* model accepts only the shape of its Input layer; Conv1D 'same' keeps the *)
(* time axis, pooling shortens it, GlobalAveragePooling1D removes it and    *)
(* Dense(1) yields one value.                                               *)
predict ==
    /\ cnn.built
    /\ \E L \in 1..MaxLen, ch \in ChannelCounts :
          outcome' = IF L # cnn.input_length \/ ch # cnn.channels
                     THEN ErrorOutcome("predict", "ValueError", L, ch)
                     ELSE [fn |-> "predict", status |-> "ok", error |-> "",
                           importance |-> <<>>, outputs |-> 1, L |-> L, ch |-> ch]
    /\ UNCHANGED <<sleep_data, chart, stages, pie, figs, drawn, calls, cnn>>

InitCNN ==
    /\ cnn = NoModel
    /\ outcome = NoOutcome
    /\ sleep_data = <<>>
    /\ chart = <<>>
    /\ stages = <<>>
    /\ pie = <<>>
    /\ figs = <<>>
    /\ drawn = <<>>
    /\ calls = <<>>

NextCNN ==
    \/ build_sleep_cnn
    \/ compute_channel_importance
    \/ predict

SpecCNN == InitCNN /\ [][NextCNN]_vars

(***************************************************************************)
(* Re-scaling the output channels of the first layer.                      *)
(*                                                                         *)
(* The weights belong to the caller (training, set_weights): the model's   *)
(* first kernel is re-scaled once, every even filter by p and every odd    *)
(* filter by q, both positive.  No call has been made on the re-scaled     *)
(* model yet.                                                              *)
(***************************************************************************)
rescale_output_channels ==
    /\ cnn.built
    /\ cnn.scale = <<1, 1>>
    /\ \E p \in 1..MaxScale, q \in 1..MaxScale :
          cnn' = [cnn EXCEPT !.scale = <<p, q>>]
    /\ outcome' = NoOutcome
    /\ UNCHANGED <<sleep_data, chart, stages, pie, figs, drawn, calls>>

NextRescale ==
    \/ build_sleep_cnn
    \/ rescale_output_channels
    \/ compute_channel_importance

SpecRescale == InitCNN /\ [][NextRescale]_vars

(* Claims about the model *)

ImportanceOf(nm) == outcome.importance[nm]

(* The model was built with a time axis that the pooling does not empty *)
BuiltModel == cnn.built /\ pooled_length(cnn.input_length) >= 1

(* C7: for a first-layer kernel with four input channels the extractor      *)
(* returns exactly four weights, one per channel name, each the channel's   *)
(* sum of absolute weights over the sum of all four, non-negative, and      *)
(* together summing to 1.                                                   *)
C7_ImportanceNormalized ==
    (BuiltModel /\ outcome.fn = "compute_channel_importance" /\ cnn.channels = 4) =>
        /\ outcome.status = "ok"
        /\ DOMAIN outcome.importance = Range(names)
        /\ \A nm \in Range(names) :
              /\ ~ImportanceOf(nm).nan
              /\ ImportanceOf(nm).den > 0
              /\ ImportanceOf(nm).num >= 0
        /\ ImportanceOf("heart_rate").num + ImportanceOf("hrv").num
              + ImportanceOf("spo2").num + ImportanceOf("wrist_temp").num
              = ImportanceOf("heart_rate").den

(* C8: importance extraction on a model whose first convolution has fewer   *)
(* or more than four input channels fails with ShapeMismatch and returns no *)
(* mapping.                                                                 *)
C8_ShapeMismatchRejected ==
    (BuiltModel /\ outcome.fn = "compute_channel_importance" /\ cnn.channels # 4) =>
        /\ outcome.status = "error"
        /\ outcome.error = "ShapeMismatch"

(* C10: one built four-channel model (its own time axis not emptied by the  *)
(* pooling) returns exactly one scalar for a four-channel input of any      *)
(* length L >= 1.                                                           *)
C10_AnyLengthOneScalar ==
    (/\ BuiltModel
     /\ outcome.fn = "predict"
     /\ cnn.channels = 4
     /\ outcome.ch = 4
     /\ outcome.L >= 1) =>
        /\ outcome.status = "ok"
        /\ outcome.outputs = 1

(* Claims about re-scaling *)

(* norms as compute_channel_importance computes them on the model m *)
channel_norms(m) == normalize(abs_sum(first_conv_kernel(m), m.channels))

(* The model with the weights it had before the re-scaling *)
Unscaled == [cnn EXCEPT !.scale = <<1, 1>>]

(* x and y are the same weight: both nan, or equal as fractions *)
SameWeight(x, y) == x.nan = y.nan /\ x.num * y.den = y.num * x.den

(* The four weights returned for the re-scaled model are those of the      *)
(* model before the re-scaling.                                            *)
ImportanceUnchanged ==
    \A before \in {channel_norms(Unscaled)} :
        \A i \in 1..Len(names) : SameWeight(ImportanceOf(names[i]), before[i])

ImportanceReturned ==
    /\ BuiltModel
    /\ cnn.channels = 4
    /\ outcome.fn = "compute_channel_importance"
    /\ outcome.status = "ok"

(* C11 as stated: multiplying the weights of each output channel of the    *)
(* first layer by any positive factor, the same for all output channels or *)
(* a different one per output channel, leaves the four returned importance *)
(* weights unchanged.                                                      *)
C11_AnyRescalingUnchanged == ImportanceReturned => ImportanceUnchanged

(* C11, amended: multiplying the weights of all output channels of the     *)
(* first layer by one and the same positive factor leaves the four         *)
(* returned importance weights unchanged (an all-zero kernel gives nan     *)
(* before and after).                                                      *)
C11_UniformRescalingUnchanged ==
    (ImportanceReturned /\ cnn.scale[1] = cnn.scale[2]) => ImportanceUnchanged

(* The importance of a model with unequal weights, all output channels     *)
(* re-scaled by one factor above 1, has been returned.                     *)
C11_Witness ==
    /\ ImportanceReturned
    /\ cnn.scale[1] = cnn.scale[2]
    /\ cnn.scale[1] > 1
    /\ ~ImportanceOf("heart_rate").nan
    /\ ~SameWeight(ImportanceOf("heart_rate"), ImportanceOf("hrv"))

=============================================================================
